---- MODULE Spec2Model ----
(***************************************************************************)
(* URMSensor: the asynchronous measurement state machine of the URMSensor  *)
(* Arduino library (URMSensor.cpp, second translation unit, with the       *)
(* header that declares _isAttached and the fast port access).             *)
(*                                                                         *)
(* Time is the value of micros().  The clock is an unsigned long; here it  *)
(* counts modulo ClockModulus instead of modulo 2^32, and the profile      *)
(* timings are scaled down with it.  The object is the record `sensor`,    *)
(* whose fields carry the names of the class members.                      *)
(***************************************************************************)
EXTENDS Integers, Sequences, FiniteSets, TLC

\* ------------------------------------------------------------------ bounds
\* Range of the clock and of every unsigned long (2^32 in the build).
ClockModulus == 4

\* ------------------------------------------------------------- vocabulary
LOW == "LOW"
HIGH == "HIGH"
Levels == {LOW, HIGH}

Idle == "Idle"
WaitingForPulse == "WaitingForPulse"
Measuring == "Measuring"
FinishedMeasure == "FinishedMeasure"
\* enum URMState
URMState == {Idle, WaitingForPulse, Measuring, FinishedMeasure}
\* _currentState is a byte: a value no enumerator names.
OutOfEnum == "OutOfEnum"
ByteStates == URMState \cup {OutOfEnum}

\* #define URM_INVALID_VALUE 0xFFFFFFFF : the largest unsigned long.
URM_INVALID_VALUE == ClockModulus - 1

ULong == 0 .. (ClockModulus - 1)

\* The two presets (URM37::attach, HC_SR04::attach), timings scaled to the
\* clock range, and one profile given to the generic attach().
URM37_Profile ==
  [_usPerCm |-> 2, _timeoutForPulseStart |-> 2, _maxPulseDuration |-> 1,
   _trigActiveState |-> LOW, _echoActiveState |-> LOW, _trigPulseWidth |-> 1]

HC_SR04_Profile ==
  [_usPerCm |-> 3, _timeoutForPulseStart |-> 1, _maxPulseDuration |-> 2,
   _trigActiveState |-> HIGH, _echoActiveState |-> HIGH, _trigPulseWidth |-> 2]

CustomProfile ==
  [_usPerCm |-> 1, _timeoutForPulseStart |-> 1, _maxPulseDuration |-> 1,
   _trigActiveState |-> HIGH, _echoActiveState |-> LOW, _trigPulseWidth |-> 0]

Profiles == {URM37_Profile, HC_SR04_Profile, CustomProfile}

\* Members of an object in zero-initialised storage.
ZeroedProfile ==
  [_usPerCm |-> 0, _timeoutForPulseStart |-> 0, _maxPulseDuration |-> 0,
   _trigActiveState |-> LOW, _echoActiveState |-> LOW, _trigPulseWidth |-> 0]

ProfileFields ==
  {"_usPerCm", "_timeoutForPulseStart", "_maxPulseDuration",
   "_trigActiveState", "_echoActiveState", "_trigPulseWidth"}

VARIABLES
  sensor,     \* the URMSensor instance (its data members)
  now,        \* micros()
  echoLine,   \* level of the ECHO pin, driven by the sensor hardware
  trigLine,   \* level last written to the TRIG pin
  trigMode,   \* direction of the TRIG pin
  echoMode,   \* direction of the ECHO pin
  pc,         \* "ready", or "measure" while measureDistance() busy-waits
  waited,     \* measureDistance(): some finishedMeasure() returned false
  op,         \* the last public call: name, state before it, result, GPIO use
  scn,        \* the echo schedule of a driven run: T is the time since the
              \* start timestamp (-1: not started), the pulse begins at Ta
              \* and lasts D
  distance    \* the caller's variable given to finishedMeasure(&distance)

vars == <<sensor, now, echoLine, trigLine, trigMode, echoMode, pc, waited, op, scn, distance>>

\* ---------------------------------------------------------------- helpers
getOppositeStateFor(activeState) == IF activeState = HIGH THEN LOW ELSE HIGH

\* Mutant: a subtraction that does not wrap (clamped at zero).
USub_Clamped(a, b) == IF a >= b THEN a - b ELSE 0

\* unsigned long subtraction
USub(a, b) == (a + ClockModulus - b) % ClockModulus

resetTime(s, t) ==
  [s EXCEPT !._currentDuration = 0, !._startMeasureTime = t]

\* the value getCurrentDuration() returns; it also stores it (next operator)
CurrentDuration(s, t) == USub(t, s._startMeasureTime)

getCurrentDuration(s, t) ==
  [s EXCEPT !._currentDuration = CurrentDuration(s, t)]

isMeasuring(s) ==
  s._currentState = WaitingForPulse \/ s._currentState = Measuring

\* The results convertCurrentDurationToDistance() can give.  A division by
\* zero is undefined: any unsigned long.
convertCurrentDurationToDistance(s) ==
  IF s._usPerCm = 0 THEN ULong
  ELSE {s._currentDuration \div s._usPerCm}

\* Mutant: the guard tests for Idle instead of "not FinishedMeasure".
getMeasuredDistance_OnlyIdleInvalid(s) ==
  IF s._currentState = Idle THEN {URM_INVALID_VALUE}
  ELSE convertCurrentDurationToDistance(s)

getMeasuredDistance(s) ==
  IF s._currentState # FinishedMeasure THEN {URM_INVALID_VALUE}
  ELSE convertCurrentDurationToDistance(s)

\* Mutant: only a running measurement is reset.
interruptMeasure_OnlyIfMeasuring(s) ==
  IF isMeasuring(s) THEN [s EXCEPT !._currentState = Idle] ELSE s

interruptMeasure(s) == [s EXCEPT !._currentState = Idle]

\* refreshState(), case WaitingForPulse.  echoState is the level
\* fastDigitalReadEcho() returned, t the value of micros().
\* Mutant: the pulse start does not restart the timer.
refreshWaitingForPulse_NoResetTime(s, echoState, t) ==
  LET s1 == getCurrentDuration(s, t) IN
  IF s1._currentDuration > s._timeoutForPulseStart
     /\ echoState # s._echoActiveState
  THEN [s1 EXCEPT !._currentState = Idle]
  ELSE IF echoState = s._echoActiveState
  THEN [s1 EXCEPT !._currentState = Measuring]
  ELSE s1

\* Mutant: the timeout is compared with >= .
refreshWaitingForPulse_TimeoutGeq(s, echoState, t) ==
  LET s1 == getCurrentDuration(s, t) IN
  IF s1._currentDuration >= s._timeoutForPulseStart
     /\ echoState # s._echoActiveState
  THEN [s1 EXCEPT !._currentState = Idle]
  ELSE IF echoState = s._echoActiveState
  THEN resetTime([s1 EXCEPT !._currentState = Measuring], t)
  ELSE s1

\* Mutant: the wait for the pulse has no timeout.
refreshWaitingForPulse_NoTimeout(s, echoState, t) ==
  LET s1 == getCurrentDuration(s, t) IN
  IF echoState = s._echoActiveState
  THEN resetTime([s1 EXCEPT !._currentState = Measuring], t)
  ELSE s1

refreshWaitingForPulse(s, echoState, t) ==
  LET s1 == getCurrentDuration(s, t) IN
  IF s1._currentDuration > s._timeoutForPulseStart
     /\ echoState # s._echoActiveState
  THEN [s1 EXCEPT !._currentState = Idle]
  ELSE IF echoState = s._echoActiveState
  THEN resetTime([s1 EXCEPT !._currentState = Measuring], t)
  ELSE s1

\* refreshState(), case Measuring.
\* Mutant: an overlong pulse is not detected.
refreshMeasuring_NoRunaway(s, echoState, t) ==
  LET s1 == getCurrentDuration(s, t) IN
  IF echoState # s._echoActiveState
  THEN [s1 EXCEPT !._currentState = FinishedMeasure]
  ELSE s1

\* Mutant: the timeout is tested before the ECHO level.
refreshMeasuring_TimeoutFirst(s, echoState, t) ==
  LET s1 == getCurrentDuration(s, t) IN
  IF s1._currentDuration > s._maxPulseDuration
  THEN [s1 EXCEPT !._currentState = Idle]
  ELSE IF echoState # s._echoActiveState
  THEN [s1 EXCEPT !._currentState = FinishedMeasure]
  ELSE s1

\* Mutant: the overlong pulse is detected one microsecond late.
refreshMeasuring_LateRunaway(s, echoState, t) ==
  LET s1 == getCurrentDuration(s, t) IN
  IF s1._currentDuration > s._maxPulseDuration + 1
     /\ echoState = s._echoActiveState
  THEN [s1 EXCEPT !._currentState = Idle]
  ELSE IF echoState # s._echoActiveState
  THEN [s1 EXCEPT !._currentState = FinishedMeasure]
  ELSE s1

refreshMeasuring(s, echoState, t) ==
  LET s1 == getCurrentDuration(s, t) IN
  IF s1._currentDuration > s._maxPulseDuration
     /\ echoState = s._echoActiveState
  THEN [s1 EXCEPT !._currentState = Idle]
  ELSE IF echoState # s._echoActiveState
  THEN [s1 EXCEPT !._currentState = FinishedMeasure]
  ELSE s1

\* Mutant: the elapsed time is taken before the switch, in every state.
refreshState_AlwaysLatches(s, echoState, t) ==
  IF s._currentState = WaitingForPulse THEN refreshWaitingForPulse(s, echoState, t)
  ELSE IF s._currentState = Measuring THEN refreshMeasuring(s, echoState, t)
  ELSE getCurrentDuration(s, t)

\* Mutant: no break after case WaitingForPulse, which falls through into
\* case Measuring.
refreshState_Fallthrough(s, echoState, t) ==
  IF s._currentState = WaitingForPulse
  THEN refreshMeasuring(refreshWaitingForPulse(s, echoState, t), echoState, t)
  ELSE IF s._currentState = Measuring THEN refreshMeasuring(s, echoState, t)
  ELSE s

\* refreshState()
refreshState(s, echoState, t) ==
  IF s._currentState = WaitingForPulse THEN refreshWaitingForPulse(s, echoState, t)
  ELSE IF s._currentState = Measuring THEN refreshMeasuring(s, echoState, t)
  ELSE s

\* startMeasure(), in three parts.  e1 is the ECHO level at the pre-check,
\* e2 the level after the trigger pulse (the line may change during
\* delayMicroseconds), t the value of micros() at the call.  The result
\* carries the new object, the clock at return and the GPIO traffic.
\* Its tail: the trigger pulse, resetTime(), refreshState().
\* Mutant: startMeasure() returns without its refreshState().
startPulse_NoPoll(s, t, e1, e2) ==
  LET t2 == (t + s._trigPulseWidth) % ClockModulus
      s1 == resetTime([s EXCEPT !._currentState = WaitingForPulse], t2)
  IN [s |-> s1, t |-> t2,
      trig |-> <<s._trigActiveState, getOppositeStateFor(s._trigActiveState)>>,
      reads |-> <<e1>>, polls |-> 0]

\* Mutant: the two writes of the trigger pulse are swapped.
startPulse_PulseInverted(s, t, e1, e2) ==
  LET t2 == (t + s._trigPulseWidth) % ClockModulus
      s1 == resetTime([s EXCEPT !._currentState = WaitingForPulse], t2)
  IN [s |-> refreshState(s1, e2, t2), t |-> t2,
      trig |-> <<getOppositeStateFor(s._trigActiveState), s._trigActiveState>>,
      reads |-> <<e1, e2>>, polls |-> 1]

startPulse(s, t, e1, e2) ==
  LET t2 == (t + s._trigPulseWidth) % ClockModulus
      s1 == resetTime([s EXCEPT !._currentState = WaitingForPulse], t2)
  IN [s |-> refreshState(s1, e2, t2), t |-> t2,
      trig |-> <<s._trigActiveState, getOppositeStateFor(s._trigActiveState)>>,
      reads |-> <<e1, e2>>, polls |-> 1]

\* Mutant: the ECHO line is not checked before the pulse.
startChecked_NoEchoCheck(s, t, e1, e2) ==
  IF ~s._isAttached
  THEN [s |-> [s EXCEPT !._currentState = Idle], t |-> t,
        trig |-> <<>>, reads |-> <<>>, polls |-> 0]
  ELSE startPulse(s, t, e1, e2)

\* Mutant: a failed start returns without  _currentState = Idle.
startChecked_FailKeepsState(s, t, e1, e2) ==
  IF ~s._isAttached
  THEN [s |-> s, t |-> t, trig |-> <<>>, reads |-> <<>>, polls |-> 0]
  ELSE IF e1 = s._echoActiveState
  THEN [s |-> s, t |-> t, trig |-> <<>>, reads |-> <<e1>>, polls |-> 0]
  ELSE startPulse(s, t, e1, e2)

\* Mutant: on a detached handle the call returns at once, state untouched.
startChecked_DetachedReturns(s, t, e1, e2) ==
  IF ~s._isAttached
  THEN [s |-> s, t |-> t, trig |-> <<>>, reads |-> <<>>, polls |-> 0]
  ELSE IF e1 = s._echoActiveState
  THEN [s |-> [s EXCEPT !._currentState = Idle], t |-> t,
        trig |-> <<>>, reads |-> <<e1>>, polls |-> 0]
  ELSE startPulse(s, t, e1, e2)

\* startMeasure() past its first line: the attachment and ECHO checks.
startChecked(s, t, e1, e2) ==
  IF ~s._isAttached
  THEN [s |-> [s EXCEPT !._currentState = Idle], t |-> t,
        trig |-> <<>>, reads |-> <<>>, polls |-> 0]
  ELSE IF e1 = s._echoActiveState
  THEN [s |-> [s EXCEPT !._currentState = Idle], t |-> t,
        trig |-> <<>>, reads |-> <<e1>>, polls |-> 0]
  ELSE startPulse(s, t, e1, e2)

\* Mutant: a call during a measurement is not ignored.
startMeasure_NotIgnored(s, t, e1, e2) == startChecked(s, t, e1, e2)

startMeasure(s, t, e1, e2) ==
  IF s._currentState = WaitingForPulse \/ s._currentState = Measuring
  THEN [s |-> s, t |-> t, trig |-> <<>>, reads |-> <<>>, polls |-> 0]
  ELSE startChecked(s, t, e1, e2)

\* Mutant: a detached handle is reported finished but not forced to Idle.
finishedMeasure_NoIdleOnDetached(s, echoState, t) ==
  IF ~s._isAttached
  THEN [s |-> s, ret |-> TRUE, reads |-> <<>>, polls |-> 0]
  ELSE LET s1 == refreshState(s, echoState, t)
       IN [s |-> s1, ret |-> ~isMeasuring(s1),
           reads |-> <<echoState>>, polls |-> 1]

\* finishedMeasure(): the new object, the result and the GPIO traffic.
finishedMeasure(s, echoState, t) ==
  IF ~s._isAttached
  THEN [s |-> [s EXCEPT !._currentState = Idle], ret |-> TRUE,
        reads |-> <<>>, polls |-> 0]
  ELSE LET s1 == refreshState(s, echoState, t)
       IN [s |-> s1, ret |-> ~isMeasuring(s1),
           reads |-> <<echoState>>, polls |-> 1]

\* op before any call, and scn when no schedule drives the ECHO line
NoCall ==
  [name |-> "URMSensor", pre |-> Idle, ret |-> FALSE, dist |-> 0,
   trig |-> <<>>, reads |-> <<>>, polls |-> 0]

NoSchedule == [T |-> -1, Ta |-> 0, D |-> 0]

\* ------------------------------------------------------------------- Init
\* The constructor sets _isAttached only; every other member holds whatever
\* the storage held.
Init ==
  /\ \E st \in ByteStates, t0 \in ULong, d \in ULong,
        p \in Profiles \cup {ZeroedProfile} :
       sensor = [f \in ProfileFields |-> p[f]] @@
                [_isAttached |-> FALSE, _currentState |-> st,
                 _startMeasureTime |-> t0, _currentDuration |-> d]
  /\ now = 0
  /\ echoLine \in Levels
  /\ trigLine = LOW
  /\ trigMode = "INPUT"
  /\ echoMode = "INPUT"
  /\ pc = "ready"
  /\ waited = FALSE
  /\ op = NoCall
  /\ scn = NoSchedule
  /\ distance = 0

\* ---------------------------------------------------------------- actions
Last(q) == q[Len(q)]

\* ret is the boolean a call returned (FALSE when it returns none), dist
\* the distance it returned (0 when it returns none).
Call(name, ret, dist, trig, reads, polls) ==
  op' = [name |-> name, pre |-> sensor._currentState, ret |-> ret,
         dist |-> dist, trig |-> trig, reads |-> reads, polls |-> polls]

\* attach(trigPin, echoPin, usPerCm, ...): setTrigPin, setEchoPin, the profile.
Attach ==
  /\ pc = "ready"
  /\ \E p \in Profiles :
       sensor' = [f \in ProfileFields |-> p[f]] @@
                 [_isAttached |-> TRUE,
                  _currentState |-> sensor._currentState,
                  _startMeasureTime |-> sensor._startMeasureTime,
                  _currentDuration |-> sensor._currentDuration]
  /\ trigMode' = "OUTPUT"
  /\ echoMode' = "INPUT"
  /\ Call("attach", FALSE, 0, <<>>, <<>>, 0)
  /\ UNCHANGED <<now, echoLine, trigLine, pc, waited, scn, distance>>

Detach ==
  /\ pc = "ready"
  /\ sensor' = [sensor EXCEPT !._isAttached = FALSE]
  /\ Call("detach", FALSE, 0, <<>>, <<>>, 0)
  /\ UNCHANGED <<now, echoLine, trigLine, trigMode, echoMode, pc, waited, scn, distance>>

\* Mutant: startMeasure() first reads the TRIG pin back with
\* fastDigitalReadTrig(), which leaves the pin an input.
StartMeasure_ReadsTrig ==
  /\ pc = "ready"
  /\ \E e2 \in Levels :
       LET r == startMeasure(sensor, now, echoLine, e2) IN
       /\ sensor' = r.s
       /\ now' = r.t
       /\ echoLine' = IF r.polls = 1 THEN e2 ELSE echoLine
       /\ trigLine' = IF r.trig # <<>> THEN Last(r.trig) ELSE trigLine
       /\ Call("startMeasure", FALSE, 0, r.trig, r.reads, r.polls)
  /\ trigMode' = "INPUT"
  /\ UNCHANGED <<echoMode, pc, waited, scn, distance>>

StartMeasure ==
  /\ pc = "ready"
  /\ \E e2 \in Levels :
       LET r == startMeasure(sensor, now, echoLine, e2) IN
       /\ sensor' = r.s
       /\ now' = r.t
       /\ echoLine' = IF r.polls = 1 THEN e2 ELSE echoLine
       /\ trigLine' = IF r.trig # <<>> THEN Last(r.trig) ELSE trigLine
       /\ Call("startMeasure", FALSE, 0, r.trig, r.reads, r.polls)
  /\ UNCHANGED <<trigMode, echoMode, pc, waited, scn, distance>>

RefreshState ==
  /\ pc = "ready"
  /\ sensor' = refreshState(sensor, echoLine, now)
  /\ Call("refreshState", FALSE, 0, <<>>, <<echoLine>>, 1)
  /\ UNCHANGED <<now, echoLine, trigLine, trigMode, echoMode, pc, waited, scn, distance>>

FinishedMeasureCall ==
  /\ pc = "ready"
  /\ LET r == finishedMeasure(sensor, echoLine, now) IN
       /\ sensor' = r.s
       /\ Call("finishedMeasure", r.ret, 0, <<>>, r.reads, r.polls)
  /\ UNCHANGED <<now, echoLine, trigLine, trigMode, echoMode, pc, waited, scn, distance>>

InterruptMeasure ==
  /\ pc = "ready"
  /\ sensor' = interruptMeasure(sensor)
  /\ Call("interruptMeasure", FALSE, 0, <<>>, <<>>, 0)
  /\ UNCHANGED <<now, echoLine, trigLine, trigMode, echoMode, pc, waited, scn, distance>>

GetMeasuredDistance ==
  /\ pc = "ready"
  /\ \E d \in getMeasuredDistance(sensor) :
       Call("getMeasuredDistance", FALSE, d, <<>>, <<>>, 0)
  /\ UNCHANGED <<sensor, now, echoLine, trigLine, trigMode, echoMode, pc, waited, scn, distance>>

\* measureDistance(): the startMeasure() call ...
MeasureDistanceStart ==
  /\ pc = "ready"
  /\ \E e2 \in Levels :
       LET r == startMeasure(sensor, now, echoLine, e2) IN
       /\ sensor' = r.s
       /\ now' = r.t
       /\ echoLine' = IF r.polls = 1 THEN e2 ELSE echoLine
       /\ trigLine' = IF r.trig # <<>> THEN Last(r.trig) ELSE trigLine
       /\ Call("measureDistance:startMeasure", FALSE, 0, r.trig, r.reads, r.polls)
  /\ pc' = "measure"
  /\ waited' = FALSE
  /\ UNCHANGED <<trigMode, echoMode, scn, distance>>

\* Mutant: if (!finishedMeasure()) in place of while: measureDistance()
\* returns after its first finishedMeasure() whatever that returned.
MeasureDistanceLoop_Once ==
  /\ pc = "measure"
  /\ LET r == finishedMeasure(sensor, echoLine, now) IN
       /\ sensor' = r.s
       /\ pc' = "ready"
       /\ waited' = waited
       /\ \E d \in getMeasuredDistance(r.s) :
            op' = [name |-> "measureDistance", pre |-> op.pre,
                   ret |-> FALSE, dist |-> d,
                   trig |-> op.trig, reads |-> op.reads, polls |-> 1]
  /\ UNCHANGED <<now, echoLine, trigLine, trigMode, echoMode, scn, distance>>

\* ... then one turn of  while (!finishedMeasure()) ;  and, when it ends,
\* return getMeasuredDistance().
MeasureDistanceLoop ==
  /\ pc = "measure"
  /\ LET r == finishedMeasure(sensor, echoLine, now) IN
       /\ sensor' = r.s
       /\ IF r.ret
          THEN /\ pc' = "ready"
               /\ waited' = waited
               /\ \E d \in getMeasuredDistance(r.s) :
                    op' = [name |-> "measureDistance", pre |-> op.pre,
                           ret |-> FALSE, dist |-> d,
                           trig |-> op.trig, reads |-> op.reads, polls |-> 1]
          ELSE /\ pc' = "measure"
               /\ waited' = TRUE
               /\ op' = op
  /\ UNCHANGED <<now, echoLine, trigLine, trigMode, echoMode, scn, distance>>

\* The environment: the clock advances, the sensor drives the ECHO line.
Tick ==
  /\ now' = (now + 1) % ClockModulus
  /\ UNCHANGED <<sensor, echoLine, trigLine, trigMode, echoMode, pc, waited, op, scn, distance>>

EchoChange ==
  /\ echoLine' = getOppositeStateFor(echoLine)
  /\ UNCHANGED <<sensor, now, trigLine, trigMode, echoMode, pc, waited, op, scn, distance>>

Next ==
  \/ Attach
  \/ Detach
  \/ StartMeasure
  \/ RefreshState
  \/ FinishedMeasureCall
  \/ InterruptMeasure
  \/ GetMeasuredDistance
  \/ MeasureDistanceStart
  \/ MeasureDistanceLoop
  \/ Tick
  \/ EchoChange

Spec == Init /\ [][Next]_vars

\* The same calls on an instance with static storage duration (the sketches
\* declare  URM37 sensor;  at file scope): its members are zero before the
\* constructor runs, so _currentState is Idle.
InitStatic ==
  /\ sensor = [f \in ProfileFields |-> ZeroedProfile[f]] @@
              [_isAttached |-> FALSE, _currentState |-> Idle,
               _startMeasureTime |-> 0, _currentDuration |-> 0]
  /\ now = 0
  /\ echoLine \in Levels
  /\ trigLine = LOW
  /\ trigMode = "INPUT"
  /\ echoMode = "INPUT"
  /\ pc = "ready"
  /\ waited = FALSE
  /\ op = NoCall
  /\ scn = NoSchedule
  /\ distance = 0

SpecStatic == InitStatic /\ [][Next]_vars

\* ------------------------------------------------- a driven run: one pulse
\* An attached handle that is not measuring, an ECHO line that is inactive
\* until Ta after the start timestamp, active for D, then inactive, and one
\* refreshState() at every clock tick.
MaxT == 6

EchoAt(p, T) ==
  IF scn.Ta <= T /\ T < scn.Ta + scn.D
  THEN p._echoActiveState
  ELSE getOppositeStateFor(p._echoActiveState)

InitPulse ==
  /\ \E p \in Profiles, st \in ByteStates \ {WaitingForPulse, Measuring},
        t0 \in ULong, d \in ULong :
       /\ sensor = [f \in ProfileFields |-> p[f]] @@
                    [_isAttached |-> TRUE, _currentState |-> st,
                     _startMeasureTime |-> t0, _currentDuration |-> d]
       /\ echoLine = getOppositeStateFor(p._echoActiveState)
       /\ \E a \in 1 .. p._timeoutForPulseStart, w \in 1 .. p._maxPulseDuration :
            scn = [T |-> -1, Ta |-> a, D |-> w]
  /\ now \in ULong
  /\ trigLine = LOW
  /\ trigMode = "OUTPUT"
  /\ echoMode = "INPUT"
  /\ pc = "ready"
  /\ waited = FALSE
  /\ op = NoCall
  /\ distance = 0

PulseStart ==
  /\ scn.T = -1
  /\ LET r == startMeasure(sensor, now, echoLine, echoLine) IN
       /\ sensor' = r.s
       /\ now' = r.t
       /\ trigLine' = IF r.trig # <<>> THEN Last(r.trig) ELSE trigLine
       /\ Call("startMeasure", FALSE, 0, r.trig, r.reads, r.polls)
  /\ scn' = [scn EXCEPT !.T = 0]
  /\ UNCHANGED <<echoLine, trigMode, echoMode, pc, waited, distance>>

PulseTickPoll ==
  /\ scn.T >= 0
  /\ scn.T < MaxT
  /\ scn' = [scn EXCEPT !.T = scn.T + 1]
  /\ now' = (now + 1) % ClockModulus
  /\ echoLine' = EchoAt(sensor, scn.T + 1)
  /\ sensor' = refreshState(sensor, echoLine', now')
  /\ Call("refreshState", FALSE, 0, <<>>, <<echoLine'>>, 1)
  /\ UNCHANGED <<trigLine, trigMode, echoMode, pc, waited, distance>>

NextPulse == PulseStart \/ PulseTickPoll

SpecPulse == InitPulse /\ [][NextPulse]_vars

\* ------------------------------------------- finishedMeasure(&distance)
\* The earlier copy of the library (URMSensor.cpp lines 1-136): its
\* startMeasure() has no ECHO check before the pulse, its refreshState(),
\* isMeasuring() and getMeasuredDistance() are those above, and its
\* finishedMeasure() takes a pointer to the caller's variable.
startMeasureV1(s, t, e2) ==
  IF s._currentState = WaitingForPulse \/ s._currentState = Measuring
  THEN [s |-> s, t |-> t, trig |-> <<>>, reads |-> <<>>, polls |-> 0]
  ELSE IF ~s._isAttached
  THEN [s |-> [s EXCEPT !._currentState = Idle], t |-> t,
        trig |-> <<>>, reads |-> <<>>, polls |-> 0]
  ELSE LET t2 == (t + s._trigPulseWidth) % ClockModulus
           s1 == resetTime([s EXCEPT !._currentState = WaitingForPulse], t2)
       IN [s |-> refreshState(s1, e2, t2), t |-> t2,
           trig |-> <<s._trigActiveState,
                      getOppositeStateFor(s._trigActiveState)>>,
           reads |-> <<e2>>, polls |-> 1]

\* Mutant: the distance is stored before the test of isMeasuring().
finishedMeasureInto_StoresAlways(s, echoState, t, d) ==
  IF ~s._isAttached
  THEN [s |-> [s EXCEPT !._currentState = Idle], ret |-> TRUE,
        distance |-> {URM_INVALID_VALUE}]
  ELSE LET s1 == refreshState(s, echoState, t)
       IN [s |-> s1, ret |-> ~isMeasuring(s1),
           distance |-> getMeasuredDistance(s1)]

\* finishedMeasure(unsigned long* distance), d being the value of *distance
\* at the call: the new object, the result and the values *distance can
\* hold at return.
finishedMeasureInto(s, echoState, t, d) ==
  IF ~s._isAttached
  THEN [s |-> [s EXCEPT !._currentState = Idle], ret |-> TRUE,
        distance |-> {URM_INVALID_VALUE}]
  ELSE LET s1 == refreshState(s, echoState, t)
       IN IF isMeasuring(s1)
          THEN [s |-> s1, ret |-> FALSE, distance |-> {d}]
          ELSE [s |-> s1, ret |-> TRUE, distance |-> getMeasuredDistance(s1)]

\* The caller's variable holds any value before the first call.
InitInto ==
  /\ \E st \in ByteStates, t0 \in ULong, d \in ULong,
        p \in Profiles \cup {ZeroedProfile} :
       sensor = [f \in ProfileFields |-> p[f]] @@
                [_isAttached |-> FALSE, _currentState |-> st,
                 _startMeasureTime |-> t0, _currentDuration |-> d]
  /\ now = 0
  /\ echoLine \in Levels
  /\ trigLine = LOW
  /\ trigMode = "INPUT"
  /\ echoMode = "INPUT"
  /\ pc = "ready"
  /\ waited = FALSE
  /\ op = NoCall
  /\ scn = NoSchedule
  /\ distance \in ULong

StartMeasureV1 ==
  /\ pc = "ready"
  /\ \E e2 \in Levels :
       LET r == startMeasureV1(sensor, now, e2) IN
       /\ sensor' = r.s
       /\ now' = r.t
       /\ echoLine' = IF r.polls = 1 THEN e2 ELSE echoLine
       /\ trigLine' = IF r.trig # <<>> THEN Last(r.trig) ELSE trigLine
       /\ Call("startMeasure", FALSE, 0, r.trig, r.reads, r.polls)
  /\ UNCHANGED <<trigMode, echoMode, pc, waited, scn, distance>>

FinishedMeasureInto ==
  /\ pc = "ready"
  /\ LET r == finishedMeasureInto(sensor, echoLine, now, distance) IN
       /\ sensor' = r.s
       /\ distance' \in r.distance
       /\ Call("finishedMeasure", r.ret, 0, <<>>, <<>>, 0)
  /\ UNCHANGED <<now, echoLine, trigLine, trigMode, echoMode, pc, waited, scn>>

NextInto ==
  \/ Attach
  \/ Detach
  \/ StartMeasureV1
  \/ FinishedMeasureInto
  \/ InterruptMeasure
  \/ Tick
  \/ EchoChange

SpecInto == InitInto /\ [][NextInto]_vars

\* ----------------------------------------------- measureDistance() timed
\* measureDistance() on an attached handle against every ECHO behaviour.
\* Its loop runs many turns per microsecond step of micros(), so between
\* two ticks of the clock there is at least one finishedMeasure().  scn.T is
\* the true time since measureDistance() was called (-1: not called yet),
\* counted without wrapping and held at MaxBusyT; scn.S is the value of
\* scn.T when resetTime() last ran.
MaxBusyT == 9

InitBusy ==
  /\ \E p \in Profiles, st \in ByteStates \ {WaitingForPulse, Measuring},
        t0 \in ULong, d \in ULong :
       sensor = [f \in ProfileFields |-> p[f]] @@
                [_isAttached |-> TRUE, _currentState |-> st,
                 _startMeasureTime |-> t0, _currentDuration |-> d]
  /\ echoLine \in Levels
  /\ scn = [T |-> -1, S |-> 0]
  /\ now \in ULong
  /\ trigLine = LOW
  /\ trigMode = "OUTPUT"
  /\ echoMode = "INPUT"
  /\ pc = "ready"
  /\ waited = FALSE
  /\ op = NoCall
  /\ distance = 0

\* measureDistance() is called: its startMeasure().
BusyStart ==
  /\ pc = "ready"
  /\ \E e2 \in Levels :
       LET r == startMeasure(sensor, now, echoLine, e2)
           T0 == IF r.trig # <<>> THEN sensor._trigPulseWidth ELSE 0
       IN
       /\ sensor' = r.s
       /\ now' = r.t
       /\ echoLine' = IF r.polls = 1 THEN e2 ELSE echoLine
       /\ trigLine' = IF r.trig # <<>> THEN Last(r.trig) ELSE trigLine
       /\ Call("measureDistance:startMeasure", FALSE, 0, r.trig, r.reads, r.polls)
       /\ scn' = [T |-> T0, S |-> T0]
  /\ pc' = "measure"
  /\ waited' = FALSE
  /\ UNCHANGED <<trigMode, echoMode, distance>>

\* One turn of the loop at clock value t and true time T, the ECHO line
\* being at level e.
BusyTurn(e, t, T) ==
  /\ pc = "measure"
  /\ LET r == finishedMeasure(sensor, e, t) IN
       /\ sensor' = r.s
       /\ scn' = [T |-> T,
                  S |-> IF sensor._currentState = WaitingForPulse
                           /\ r.s._currentState = Measuring
                        THEN T ELSE scn.S]
       /\ IF r.ret
          THEN /\ pc' = "ready"
               /\ waited' = waited
               /\ \E d \in getMeasuredDistance(r.s) :
                    op' = [name |-> "measureDistance", pre |-> op.pre,
                           ret |-> FALSE, dist |-> d,
                           trig |-> op.trig, reads |-> op.reads, polls |-> 1]
          ELSE /\ pc' = "measure"
               /\ waited' = TRUE
               /\ op' = op
  /\ echoLine' = e
  /\ now' = t
  /\ UNCHANGED <<trigLine, trigMode, echoMode, distance>>

\* A further turn within the same microsecond.
BusyPoll == \E e \in Levels : BusyTurn(e, now, scn.T)

\* The first turn after the clock advanced by one.
BusyTickPoll ==
  \E e \in Levels :
    BusyTurn(e, (now + 1) % ClockModulus,
             IF scn.T < MaxBusyT THEN scn.T + 1 ELSE MaxBusyT)

NextBusy == BusyStart \/ BusyPoll \/ BusyTickPoll

SpecBusy == InitBusy /\ [][NextBusy]_vars

\* The clock keeps advancing while measureDistance() runs.
FairSpecBusy == SpecBusy /\ WF_vars(BusyTickPoll)

\* ------------------------------------------------------ any poll schedule
\* An attached handle polled whenever the caller likes: any number of clock
\* ticks and ECHO changes between two calls.  scn.tM is the clock value at
\* the poll that last moved WaitingForPulse to Measuring, scn.tW the clock
\* value at the last start timestamp.
InitPolls ==
  /\ \E p \in Profiles, st \in ByteStates \ {WaitingForPulse, Measuring},
        t0 \in ULong, d \in ULong :
       sensor = [f \in ProfileFields |-> p[f]] @@
                [_isAttached |-> TRUE, _currentState |-> st,
                 _startMeasureTime |-> t0, _currentDuration |-> d]
  /\ echoLine \in Levels
  /\ scn = [tW |-> 0, tM |-> 0]
  /\ now \in ULong
  /\ trigLine = LOW
  /\ trigMode = "OUTPUT"
  /\ echoMode = "INPUT"
  /\ pc = "ready"
  /\ waited = FALSE
  /\ op = NoCall
  /\ distance = 0

PollsStart ==
  /\ \E e2 \in Levels :
       LET r == startMeasure(sensor, now, echoLine, e2) IN
       /\ sensor' = r.s
       /\ now' = r.t
       /\ echoLine' = IF r.polls = 1 THEN e2 ELSE echoLine
       /\ trigLine' = IF r.trig # <<>> THEN Last(r.trig) ELSE trigLine
       /\ Call("startMeasure", FALSE, 0, r.trig, r.reads, r.polls)
       /\ scn' = IF r.polls = 1
                 THEN [tW |-> r.t,
                       tM |-> IF r.s._currentState = Measuring
                              THEN r.t ELSE scn.tM]
                 ELSE scn
  /\ UNCHANGED <<trigMode, echoMode, pc, waited, distance>>

PollsRefresh ==
  /\ sensor' = refreshState(sensor, echoLine, now)
  /\ Call("refreshState", FALSE, 0, <<>>, <<echoLine>>, 1)
  /\ scn' = IF sensor._currentState = WaitingForPulse
               /\ sensor'._currentState = Measuring
            THEN [scn EXCEPT !.tM = now] ELSE scn
  /\ UNCHANGED <<now, echoLine, trigLine, trigMode, echoMode, pc, waited, distance>>

PollsInterrupt ==
  /\ sensor' = interruptMeasure(sensor)
  /\ Call("interruptMeasure", FALSE, 0, <<>>, <<>>, 0)
  /\ UNCHANGED <<now, echoLine, trigLine, trigMode, echoMode, pc, waited, scn, distance>>

NextPolls ==
  \/ PollsStart
  \/ PollsRefresh
  \/ PollsInterrupt
  \/ Tick
  \/ EchoChange

SpecPolls == InitPolls /\ [][NextPolls]_vars

\* ------------------------------------------------- AsynchronousTest.ino
\* The sketch: a file-scope sensor attached in setup(), and loop() calling
\* manageSensorStartup() then handleMeasurementResults().  pc is "loop" at
\* the top of loop() and "handle" between the two functions; the clock and
\* the ECHO line move at any time (the rest of loop() takes time).  In scn,
\* receivedDistanceIsActual is the sketch's flag, reported says that the
\* last handleMeasurementResults() printed a result, and pending counts
\* the startMeasure() calls that were not ignored minus the results
\* printed (held within -1 .. 2).
InitSketch ==
  /\ \E p \in {URM37_Profile, HC_SR04_Profile} :
       sensor = [f \in ProfileFields |-> p[f]] @@
                [_isAttached |-> TRUE, _currentState |-> Idle,
                 _startMeasureTime |-> 0, _currentDuration |-> 0]
  /\ now \in ULong
  /\ echoLine \in Levels
  /\ trigLine = LOW
  /\ trigMode = "OUTPUT"
  /\ echoMode = "INPUT"
  /\ pc = "loop"
  /\ waited = FALSE
  /\ op = NoCall
  /\ scn = [receivedDistanceIsActual |-> FALSE, reported |-> FALSE,
            pending |-> 0]
  /\ distance = 0

\* manageSensorStartup(): nothing when less than 500 ms passed since the
\* last start (any iteration may be the one that is due); else
\* startMeasure() and the flag.
manageSensorStartup ==
  /\ pc = "loop"
  /\ pc' = "handle"
  /\ \/ /\ scn' = [scn EXCEPT !.reported = FALSE]
        /\ UNCHANGED <<sensor, now, echoLine, trigLine, op>>
     \/ \E e2 \in Levels :
          LET r == startMeasure(sensor, now, echoLine, e2) IN
          /\ sensor' = r.s
          /\ now' = r.t
          /\ echoLine' = IF r.polls = 1 THEN e2 ELSE echoLine
          /\ trigLine' = IF r.trig # <<>> THEN Last(r.trig) ELSE trigLine
          /\ Call("startMeasure", FALSE, 0, r.trig, r.reads, r.polls)
          /\ scn' = [receivedDistanceIsActual |-> TRUE,
                     reported |-> FALSE,
                     pending |-> IF isMeasuring(sensor) \/ scn.pending = 2
                                 THEN scn.pending ELSE scn.pending + 1]
  /\ UNCHANGED <<trigMode, echoMode, waited, distance>>

\* Mutant: the flag is not reset after the result was printed.
handleMeasurementResults_KeepsFlag ==
  /\ pc = "handle"
  /\ pc' = "loop"
  /\ LET r == finishedMeasure(sensor, echoLine, now) IN
       /\ sensor' = r.s
       /\ Call("finishedMeasure", r.ret, 0, <<>>, r.reads, r.polls)
       /\ IF r.ret /\ scn.receivedDistanceIsActual
          THEN /\ distance' \in getMeasuredDistance(r.s)
               /\ scn' = [receivedDistanceIsActual |-> TRUE,
                          reported |-> TRUE,
                          pending |-> IF scn.pending = -1 THEN -1
                                      ELSE scn.pending - 1]
          ELSE /\ distance' = distance
               /\ scn' = [scn EXCEPT !.reported = FALSE]
  /\ UNCHANGED <<now, echoLine, trigLine, trigMode, echoMode, waited>>

\* handleMeasurementResults(): finishedMeasure() is called first, whatever
\* the flag; the result is printed when both hold.
handleMeasurementResults ==
  /\ pc = "handle"
  /\ pc' = "loop"
  /\ LET r == finishedMeasure(sensor, echoLine, now) IN
       /\ sensor' = r.s
       /\ Call("finishedMeasure", r.ret, 0, <<>>, r.reads, r.polls)
       /\ IF r.ret /\ scn.receivedDistanceIsActual
          THEN /\ distance' \in getMeasuredDistance(r.s)
               /\ scn' = [receivedDistanceIsActual |-> FALSE,
                          reported |-> TRUE,
                          pending |-> IF scn.pending = -1 THEN -1
                                      ELSE scn.pending - 1]
          ELSE /\ distance' = distance
               /\ scn' = [scn EXCEPT !.reported = FALSE]
  /\ UNCHANGED <<now, echoLine, trigLine, trigMode, echoMode, waited>>

NextSketch ==
  \/ manageSensorStartup
  \/ handleMeasurementResults
  \/ Tick
  \/ EchoChange

SpecSketch == InitSketch /\ [][NextSketch]_vars

\* --------------------------------------- refreshState() in a handler
\* refreshState() called from an interrupt handler (the header allows it)
\* while the main program runs startMeasure() statement by statement.  pc
\* is the next line of startMeasure() in URMSensor.cpp ("ready": the call
\* has not begun or has returned).  The handler runs to its end between
\* any two statements.  scn.fresh says that _startMeasureTime was written
\* by the startMeasure() call in progress, or by the last one to return.
InitIsr ==
  /\ \E p \in Profiles, st \in {Idle, FinishedMeasure}, t0 \in ULong,
        d \in ULong :
       sensor = [f \in ProfileFields |-> p[f]] @@
                [_isAttached |-> TRUE, _currentState |-> st,
                 _startMeasureTime |-> t0, _currentDuration |-> d]
  /\ now \in ULong
  /\ echoLine \in Levels
  /\ trigLine = LOW
  /\ trigMode = "OUTPUT"
  /\ echoMode = "INPUT"
  /\ pc = "ready"
  /\ waited = FALSE
  /\ op = NoCall
  /\ scn = [fresh |-> FALSE]
  /\ distance = 0

\* lines 142-151: the call is ignored, or fails, or goes on.
IsrStartChecks ==
  /\ pc = "ready"
  /\ IF isMeasuring(sensor)
     THEN UNCHANGED <<sensor, pc, scn>>
     ELSE IF ~sensor._isAttached \/ echoLine = sensor._echoActiveState
     THEN /\ sensor' = [sensor EXCEPT !._currentState = Idle]
          /\ UNCHANGED <<pc, scn>>
     ELSE /\ pc' = "155"
          /\ scn' = [fresh |-> FALSE]
          /\ sensor' = sensor
  /\ Call("startMeasure", FALSE, 0, <<>>, <<>>, 0)
  /\ UNCHANGED <<now, echoLine, trigLine, trigMode, echoMode, waited, distance>>

\* line 155: _currentState = WaitingForPulse;
IsrStartSetsWaiting ==
  /\ pc = "155"
  /\ pc' = "157"
  /\ sensor' = [sensor EXCEPT !._currentState = WaitingForPulse]
  /\ UNCHANGED <<now, echoLine, trigLine, trigMode, echoMode, waited, op, scn, distance>>

\* lines 157-159: the trigger pulse.
IsrStartPulse ==
  /\ pc = "157"
  /\ pc' = "161"
  /\ now' = (now + sensor._trigPulseWidth) % ClockModulus
  /\ trigLine' = getOppositeStateFor(sensor._trigActiveState)
  /\ UNCHANGED <<sensor, echoLine, trigMode, echoMode, waited, op, scn, distance>>

\* line 161: resetTime();
IsrStartResetsTime ==
  /\ pc = "161"
  /\ pc' = "162"
  /\ sensor' = resetTime(sensor, now)
  /\ scn' = [fresh |-> TRUE]
  /\ UNCHANGED <<now, echoLine, trigLine, trigMode, echoMode, waited, op, distance>>

\* line 162: refreshState(); and the return.
IsrStartPolls ==
  /\ pc = "162"
  /\ pc' = "ready"
  /\ sensor' = refreshState(sensor, echoLine, now)
  /\ UNCHANGED <<now, echoLine, trigLine, trigMode, echoMode, waited, op, scn, distance>>

\* The handler: one refreshState(), not interrupted itself.
IsrRefreshState ==
  /\ sensor' = refreshState(sensor, echoLine, now)
  /\ Call("refreshState", FALSE, 0, <<>>, <<echoLine>>, 1)
  /\ UNCHANGED <<now, echoLine, trigLine, trigMode, echoMode, pc, waited, scn, distance>>

NextIsr ==
  \/ IsrStartChecks
  \/ IsrStartSetsWaiting
  \/ IsrStartPulse
  \/ IsrStartResetsTime
  \/ IsrStartPolls
  \/ IsrRefreshState
  \/ Tick
  \/ EchoChange

SpecIsr == InitIsr /\ [][NextIsr]_vars

\* ------------------------- refreshState() in a handler and in the loop
\* The main loop calls finishedMeasure() and runs it statement by
\* statement; an interrupt handler calls refreshState() between any two
\* of them.  pc is the next line of URMSensor.cpp the main loop executes
\* ("ready": no call in progress).  scn.echoState is the local variable
\* of the main loop's refreshState(), scn.dur the value its
\* getCurrentDuration() returned.  scn.done says that the handler took
\* the handle from Measuring to FinishedMeasure while the main loop's
\* call was in progress, and scn.latched is the _currentDuration the
\* handler left.  The handle is a file-scope instance (zeroed), attached.
InitLoop ==
  /\ \E p \in Profiles :
       sensor = [f \in ProfileFields |-> p[f]] @@
                [_isAttached |-> TRUE, _currentState |-> Idle,
                 _startMeasureTime |-> 0, _currentDuration |-> 0]
  /\ now \in ULong
  /\ echoLine \in Levels
  /\ trigLine = LOW
  /\ trigMode = "OUTPUT"
  /\ echoMode = "INPUT"
  /\ pc = "ready"
  /\ waited = FALSE
  /\ op = NoCall
  /\ scn = [echoState |-> LOW, dur |-> 0, done |-> FALSE, latched |-> 0]
  /\ distance = 0

\* finishedMeasure() line 216 (the handle is attached), line 223, and
\* refreshState() line 177: byte echoState = fastDigitalReadEcho();
LoopReadsEcho ==
  /\ pc = "ready"
  /\ sensor._isAttached
  /\ pc' = "179"
  /\ scn' = [echoState |-> echoLine, dur |-> 0, done |-> FALSE, latched |-> 0]
  /\ Call("finishedMeasure", FALSE, 0, <<>>, <<echoLine>>, 1)
  /\ UNCHANGED <<sensor, now, echoLine, trigLine, trigMode, echoMode, waited, distance>>

\* line 179: switch (_currentState)
LoopDispatches ==
  /\ pc = "179"
  /\ pc' = CASE sensor._currentState = WaitingForPulse -> "182"
            [] sensor._currentState = Measuring -> "195"
            [] OTHER -> "226"
  /\ UNCHANGED <<sensor, now, echoLine, trigLine, trigMode, echoMode, waited, op, scn, distance>>

\* lines 182 and 195: getCurrentDuration(), which stores _currentDuration.
LoopComputesDuration ==
  /\ pc \in {"182", "195"}
  /\ pc' = IF pc = "182" THEN "183" ELSE "196"
  /\ sensor' = getCurrentDuration(sensor, now)
  /\ scn' = [scn EXCEPT !.dur = CurrentDuration(sensor, now)]
  /\ UNCHANGED <<now, echoLine, trigLine, trigMode, echoMode, waited, op, distance>>

\* lines 182-190: the tests of case WaitingForPulse and its assignments.
LoopWritesWaiting ==
  /\ pc = "183"
  /\ pc' = "226"
  /\ sensor' =
       IF scn.dur > sensor._timeoutForPulseStart
          /\ scn.echoState # sensor._echoActiveState
       THEN [sensor EXCEPT !._currentState = Idle]
       ELSE IF scn.echoState = sensor._echoActiveState
       THEN resetTime([sensor EXCEPT !._currentState = Measuring], now)
       ELSE sensor
  /\ UNCHANGED <<now, echoLine, trigLine, trigMode, echoMode, waited, op, scn, distance>>

\* lines 195-203: the tests of case Measuring and its assignments.
LoopWritesMeasuring ==
  /\ pc = "196"
  /\ pc' = "226"
  /\ sensor' =
       IF scn.dur > sensor._maxPulseDuration
          /\ scn.echoState = sensor._echoActiveState
       THEN [sensor EXCEPT !._currentState = Idle]
       ELSE IF scn.echoState # sensor._echoActiveState
       THEN [sensor EXCEPT !._currentState = FinishedMeasure]
       ELSE sensor
  /\ UNCHANGED <<now, echoLine, trigLine, trigMode, echoMode, waited, op, scn, distance>>

\* finishedMeasure() line 226: return (!isMeasuring()); the locals of
\* the call are gone.
LoopReturns ==
  /\ pc = "226"
  /\ pc' = "ready"
  /\ op' = [op EXCEPT !.ret = ~isMeasuring(sensor)]
  /\ scn' = [echoState |-> LOW, dur |-> 0, done |-> FALSE, latched |-> 0]
  /\ UNCHANGED <<sensor, now, echoLine, trigLine, trigMode, echoMode, waited, distance>>

\* The handler: one refreshState(), not interrupted itself.
HandlerRefreshState ==
  /\ sensor' = refreshState(sensor, echoLine, now)
  /\ scn' = IF pc # "ready" /\ sensor._currentState = Measuring
               /\ sensor'._currentState = FinishedMeasure
            THEN [scn EXCEPT !.done = TRUE,
                             !.latched = sensor'._currentDuration]
            ELSE scn
  /\ UNCHANGED <<now, echoLine, trigLine, trigMode, echoMode, pc, waited, op, distance>>

NextLoop ==
  \/ StartMeasure
  \/ LoopReadsEcho
  \/ LoopDispatches
  \/ LoopComputesDuration
  \/ LoopWritesWaiting
  \/ LoopWritesMeasuring
  \/ LoopReturns
  \/ HandlerRefreshState
  \/ Tick
  \/ EchoChange

SpecLoop == InitLoop /\ [][NextLoop]_vars

\* ------------------------------------------------------------------ claims
Sentinel == {URM_INVALID_VALUE}

\* C1: the value getMeasuredDistance() returned is URM_INVALID_VALUE when the
\* state is not FinishedMeasure, and _currentDuration / _usPerCm (truncating)
\* when it is FinishedMeasure, for every profile (_usPerCm > 0).
C1_MeasuredDistance ==
  op.name = "getMeasuredDistance" =>
    IF sensor._currentState # FinishedMeasure
    THEN op.dist = URM_INVALID_VALUE
    ELSE sensor._usPerCm > 0 =>
           op.dist = sensor._currentDuration \div sensor._usPerCm

\* C1 witness: a measured width of 3 with 2 us/cm was read back as 1.
C1_Witness ==
  /\ op.name = "getMeasuredDistance"
  /\ op.pre = FinishedMeasure
  /\ sensor._isAttached
  /\ sensor._usPerCm = 2
  /\ sensor._currentDuration = 3
  /\ op.dist = 1

\* C2: in the driven run the state after each poll is WaitingForPulse while
\* T < Ta, Measuring while Ta <= T < Ta + D, FinishedMeasure from T = Ta + D
\* on, and from then on getMeasuredDistance() gives D / _usPerCm.
C2_PulseTimeline ==
  scn.T >= 0 =>
    /\ sensor._currentState =
         IF scn.T < scn.Ta THEN WaitingForPulse
         ELSE IF scn.T < scn.Ta + scn.D THEN Measuring
         ELSE FinishedMeasure
    /\ scn.T >= scn.Ta + scn.D =>
         getMeasuredDistance(sensor) = {scn.D \div sensor._usPerCm}

\* C2 witness: the run is past the end of a pulse of width 1 at 1 us/cm.
C2_Witness ==
  /\ scn.T > scn.Ta + scn.D
  /\ scn.D = 1
  /\ sensor._usPerCm = 1
  /\ sensor._currentState = FinishedMeasure
  /\ getMeasuredDistance(sensor) = {1}

\* Steps of the model, named for the claims about single calls.
\* A call that polls: refreshState(), or finishedMeasure() on an attached
\* handle (alone or as a turn of measureDistance()'s loop).
PollStep ==
  \/ RefreshState
  \/ sensor._isAttached /\ (FinishedMeasureCall \/ MeasureDistanceLoop)

\* A startMeasure() call (alone or as the first line of measureDistance()).
StartStep == StartMeasure \/ MeasureDistanceStart

\* micros() - _startMeasureTime as an unsigned long
Elapsed == (now - sensor._startMeasureTime + ClockModulus) % ClockModulus

EchoActive == echoLine = sensor._echoActiveState

\* C3: a poll in WaitingForPulse that finds the ECHO line inactive leaves the
\* state WaitingForPulse when the time since the start timestamp is at most
\* _timeoutForPulseStart and makes it Idle when it is greater; before and
\* after it getMeasuredDistance() gives URM_INVALID_VALUE.  The poll inside a
\* successful startMeasure() that finds the line inactive leaves
\* WaitingForPulse.
C3_PulseStartTimeout ==
  [][/\ (PollStep /\ sensor._currentState = WaitingForPulse /\ ~EchoActive) =>
          /\ sensor'._currentState =
               IF Elapsed > sensor._timeoutForPulseStart
               THEN Idle ELSE WaitingForPulse
          /\ getMeasuredDistance(sensor) = Sentinel
          /\ getMeasuredDistance(sensor') = Sentinel
     /\ (StartStep /\ op'.polls = 1 /\ echoLine' # sensor._echoActiveState) =>
          /\ sensor'._currentState = WaitingForPulse
          /\ getMeasuredDistance(sensor') = Sentinel
    ]_vars

\* C3 witness: a poll found the line inactive after more than the timeout
\* and gave up the measurement a startMeasure() had begun.
C3_Witness ==
  /\ op.name = "refreshState"
  /\ op.pre = WaitingForPulse
  /\ op.reads = <<getOppositeStateFor(sensor._echoActiveState)>>
  /\ sensor._isAttached
  /\ sensor._currentState = Idle
  /\ sensor._currentDuration > sensor._timeoutForPulseStart
  /\ trigMode = "OUTPUT"

\* C4: a poll in Measuring that finds the ECHO line still active more than
\* _maxPulseDuration after the Measuring timestamp makes the state Idle, and
\* getMeasuredDistance() then gives URM_INVALID_VALUE.
C4_PulseRunaway ==
  [][(/\ PollStep
      /\ sensor._currentState = Measuring
      /\ EchoActive
      /\ Elapsed > sensor._maxPulseDuration) =>
         /\ sensor'._currentState = Idle
         /\ getMeasuredDistance(sensor') = Sentinel
    ]_vars

\* C4 witness: a poll ended an overlong pulse in Idle.
C4_Witness ==
  /\ op.name \in {"refreshState", "finishedMeasure"}
  /\ op.pre = Measuring
  /\ op.reads = <<sensor._echoActiveState>>
  /\ sensor._isAttached
  /\ sensor._currentState = Idle
  /\ sensor._currentDuration > sensor._maxPulseDuration

\* C5: the ECHO level decides before the timeout.  A poll in WaitingForPulse
\* that finds the line active enters Measuring and restarts the timer, and a
\* poll in Measuring that finds it inactive enters FinishedMeasure with
\* _currentDuration the time since the Measuring timestamp, whatever the
\* elapsed time; a poll makes a running measurement Idle only when the
\* timeout of its state is exceeded and the line is at the failing level.
C5_EchoWinsOverTimeout ==
  [][PollStep =>
       /\ (sensor._currentState = WaitingForPulse /\ EchoActive) =>
            /\ sensor'._currentState = Measuring
            /\ sensor'._startMeasureTime = now
            /\ sensor'._currentDuration = 0
       /\ (sensor._currentState = Measuring /\ ~EchoActive) =>
            /\ sensor'._currentState = FinishedMeasure
            /\ sensor'._currentDuration = Elapsed
       /\ (isMeasuring(sensor) /\ sensor'._currentState = Idle) =>
            IF sensor._currentState = WaitingForPulse
            THEN Elapsed > sensor._timeoutForPulseStart /\ ~EchoActive
            ELSE Elapsed > sensor._maxPulseDuration /\ EchoActive
    ]_vars

\* C5 witness: a pulse longer than _maxPulseDuration was found ended and was
\* latched as a finished measurement.
C5_Witness ==
  /\ op.name \in {"refreshState", "finishedMeasure"}
  /\ op.pre = Measuring
  /\ op.reads = <<getOppositeStateFor(sensor._echoActiveState)>>
  /\ sensor._isAttached
  /\ sensor._currentState = FinishedMeasure
  /\ sensor._currentDuration > sensor._maxPulseDuration

\* C6: startMeasure() in WaitingForPulse or Measuring changes nothing: not the
\* object (state, start timestamp, latched duration), not the clock, not the
\* TRIG line; it reads no pin and does not poll.
C6_StartWhileMeasuring ==
  [][(StartStep /\ isMeasuring(sensor)) =>
       /\ sensor' = sensor
       /\ now' = now
       /\ trigLine' = trigLine
       /\ echoLine' = echoLine
       /\ op'.trig = <<>>
       /\ op'.reads = <<>>
       /\ op'.polls = 0
    ]_vars

\* C6 witness: startMeasure() was called on an attached handle in Measuring.
C6_Witness ==
  /\ op.name = "startMeasure"
  /\ op.pre = Measuring
  /\ sensor._isAttached
  /\ sensor._currentState = Measuring
  /\ op.trig = <<>>

\* C7: interruptMeasure() leaves the state Idle from any state, attached or
\* not, and writes no pin; the state then stays Idle, and
\* getMeasuredDistance() gives URM_INVALID_VALUE, until a startMeasure().
C7_Interrupt ==
  [][/\ InterruptMeasure =>
          /\ sensor'._currentState = Idle
          /\ getMeasuredDistance(sensor') = Sentinel
          /\ trigLine' = trigLine
          /\ op'.trig = <<>>
     /\ (sensor._currentState = Idle /\ ~StartStep) =>
          /\ sensor'._currentState = Idle
          /\ getMeasuredDistance(sensor') = Sentinel
    ]_vars

\* C7 witness: a finished measurement was interrupted.
C7_Witness ==
  /\ op.name = "interruptMeasure"
  /\ op.pre = FinishedMeasure
  /\ sensor._currentState = Idle

C9_FinishedMeasureContract ==
  op.name = "finishedMeasure" =>
    /\ sensor._isAttached =>
         op.polls = 1 /\ op.ret = ~isMeasuring(sensor)
    /\ ~sensor._isAttached =>
         op.polls = 0 /\ op.ret = TRUE /\ sensor._currentState = Idle
    /\ op.ret = TRUE <=> sensor._currentState \in {Idle, FinishedMeasure}

\* No attach() so far: attach() makes the TRIG pin an output, for good.
NeverAttached == trigMode = "INPUT"

\* C10: on a handle never attached, startMeasure() reads and writes no pin
\* and leaves Idle, finishedMeasure() returns true, getMeasuredDistance()
\* gives URM_INVALID_VALUE, and measureDistance() gives URM_INVALID_VALUE
\* after a single finishedMeasure().
C10_NeverAttached ==
  NeverAttached =>
    /\ op.name = "startMeasure" =>
         op.reads = <<>> /\ op.trig = <<>> /\ sensor._currentState = Idle
    /\ op.name = "finishedMeasure" => op.ret = TRUE
    /\ op.name = "getMeasuredDistance" => op.dist = URM_INVALID_VALUE
    /\ op.name = "measureDistance" =>
         op.dist = URM_INVALID_VALUE /\ ~waited

\* detach() was called and attach() has not been called since.
Detached == ~sensor._isAttached /\ ~NeverAttached

\* C11: once detach() was called, after any later call and until the next
\* attach() the state is Idle and getMeasuredDistance() gives
\* URM_INVALID_VALUE, whatever the state was at the detach().
C11_AfterDetach ==
  Detached /\ op.name # "detach" =>
    /\ sensor._currentState = Idle
    /\ getMeasuredDistance(sensor) = Sentinel

C13_MeasureIsAsyncSequence ==
  [][ /\ MeasureDistanceStart =>
           \E e2 \in Levels :
             LET r == startMeasure(sensor, now, echoLine, e2) IN
             /\ sensor' = r.s
             /\ now' = r.t
             /\ op'.trig = r.trig
             /\ op'.reads = r.reads
      /\ MeasureDistanceLoop =>
           LET r == finishedMeasure(sensor, echoLine, now) IN
           /\ sensor' = r.s
           /\ (pc' = "ready") <=> r.ret
           /\ pc' = "ready" =>
                /\ ~isMeasuring(sensor')
                /\ op'.name = "measureDistance"
                /\ op'.dist \in getMeasuredDistance(sensor')
                /\ op'.dist =
                     IF sensor'._currentState = FinishedMeasure
                     THEN sensor'._currentDuration \div sensor'._usPerCm
                     ELSE URM_INVALID_VALUE
    ]_vars

\* C13 witness: measureDistance() on an Idle handle sent the trigger pulse,
\* waited for the echo pulse and returned its width of 2 at 2 us/cm as 1.
C13_Witness ==
  /\ pc = "ready"
  /\ op.name = "measureDistance"
  /\ op.pre = Idle
  /\ op.trig # <<>>
  /\ waited
  /\ sensor._isAttached
  /\ sensor._currentState = FinishedMeasure
  /\ sensor._currentDuration = 2
  /\ sensor._usPerCm = 2
  /\ op.dist = 1

\* The profile's bound on the working time of measureDistance(): the trigger
\* pulse, the wait for the echo pulse and the longest pulse.
WorkingTimeBound ==
  sensor._trigPulseWidth + sensor._timeoutForPulseStart
    + sensor._maxPulseDuration

C15_MeasureTerminates ==
  (pc = "measure" /\ isMeasuring(sensor))
    ~> (pc = "ready" /\ sensor._currentState \in {Idle, FinishedMeasure})

\* C15 witness: measureDistance() came back from a wait that timed out
\* (the ECHO line never became active) ...
C15_Witness ==
  /\ pc = "ready"
  /\ op.name = "measureDistance"
  /\ op.trig # <<>>
  /\ waited
  /\ sensor._currentState = Idle
  /\ scn.S = sensor._trigPulseWidth
  /\ scn.T = sensor._trigPulseWidth + sensor._timeoutForPulseStart + 1

\* C16: the elapsed time is taken modulo the clock range, so a poll decides
\* by the true elapsed time since the last resetTime() (scn.T - scn.S,
\* below the clock range) wherever in its range the clock stood and
\* whether or not it wrapped in between: the wait times out exactly when
\* the true elapsed time is above _timeoutForPulseStart and the ECHO line
\* is inactive, the pulse is overlong exactly when it is above
\* _maxPulseDuration and the line is active, and the latched
\* _currentDuration is the true elapsed time.
C16_WrapSafe ==
  [][ pc = "measure" /\ scn'.T < MaxBusyT /\ scn'.T - scn.S < ClockModulus =>
        LET e == scn'.T - scn.S
            active == echoLine' = sensor._echoActiveState
        IN
        /\ sensor._currentState = WaitingForPulse =>
             /\ sensor'._currentState = Idle <=>
                  e > sensor._timeoutForPulseStart /\ ~active
             /\ sensor'._currentState = WaitingForPulse =>
                  sensor'._currentDuration = e
        /\ sensor._currentState = Measuring =>
             /\ sensor'._currentState = Idle <=>
                  e > sensor._maxPulseDuration /\ active
             /\ sensor'._currentDuration = e
    ]_vars

\* C16 witness: the clock wrapped during the pulse (micros() is below the
\* timestamp) and the latched width is the true 2.
C16_Witness ==
  /\ op.name = "measureDistance"
  /\ sensor._currentState = FinishedMeasure
  /\ now < sensor._startMeasureTime
  /\ scn.T - scn.S = 2
  /\ sensor._currentDuration = 2

\* C17: in FinishedMeasure, for every profile with _usPerCm > 0 and every
\* latched _currentDuration, getMeasuredDistance() gives a value other than
\* URM_INVALID_VALUE.
C17_SentinelDistinct ==
  sensor._currentState = FinishedMeasure /\ sensor._usPerCm > 0 =>
    URM_INVALID_VALUE \notin getMeasuredDistance(sensor)

\* C18: attach() leaves the TRIG pin an output and the ECHO pin an input,
\* and no other step (startMeasure, refreshState, finishedMeasure,
\* interruptMeasure, getMeasuredDistance, measureDistance, detach) changes
\* the direction of either pin.
C18_PinDirections ==
  [][ /\ Attach => trigMode' = "OUTPUT" /\ echoMode' = "INPUT"
      /\ ~Attach => trigMode' = trigMode /\ echoMode' = echoMode
      /\ sensor'._isAttached => trigMode' = "OUTPUT" /\ echoMode' = "INPUT"
    ]_vars

\* C18 witness: after attach() a whole measureDistance() ran, with its
\* trigger pulse, polls and result, and the directions are as attach() set
\* them.
C18_Witness ==
  /\ sensor._isAttached
  /\ op.name = "measureDistance"
  /\ op.trig # <<>>
  /\ waited
  /\ trigMode = "OUTPUT"
  /\ echoMode = "INPUT"

\* C19: finishedMeasure(&distance) leaves the caller's variable as it was
\* when it returns false; when it returns true the variable holds
\* _currentDuration / _usPerCm if the state is FinishedMeasure and
\* URM_INVALID_VALUE otherwise, a detached handle included.
C19_PointedVariable ==
  [][ FinishedMeasureInto =>
        IF op'.ret
        THEN distance' =
               IF sensor'._currentState = FinishedMeasure
               THEN sensor'._currentDuration \div sensor'._usPerCm
               ELSE URM_INVALID_VALUE
        ELSE distance' = distance /\ isMeasuring(sensor')
    ]_vars

\* C19 witness: the variable held a distance of 1, a new measurement is
\* running, and finishedMeasure(&distance) returned false and left the 1.
C19_Witness ==
  /\ op.name = "finishedMeasure"
  /\ ~op.ret
  /\ sensor._isAttached
  /\ sensor._currentState = Measuring
  /\ op.pre = WaitingForPulse
  /\ distance = 1

\* C20: before any call on a new handle isAttached() is false, getState()
\* is Idle, isMeasuring() is false and getMeasuredDistance() gives
\* URM_INVALID_VALUE.
C20_NewHandle ==
  op = NoCall =>
    /\ ~sensor._isAttached
    /\ sensor._currentState = Idle
    /\ ~isMeasuring(sensor)
    /\ getMeasuredDistance(sensor) = Sentinel

\* C21: startMeasure() on an attached handle that is not measuring, with
\* the ECHO line inactive at its check, takes the timestamp after the
\* trigger pulse, sets WaitingForPulse and polls once before it returns:
\* at return the state is Measuring, timed from that poll, if the poll read
\* the ECHO line active, and WaitingForPulse if not; never FinishedMeasure.
C21_StartPollsOnce ==
  [][ StartStep /\ sensor._isAttached /\ ~isMeasuring(sensor) /\ ~EchoActive =>
        /\ op'.polls = 1
        /\ Len(op'.reads) = 2
        /\ now' = (now + sensor._trigPulseWidth) % ClockModulus
        /\ sensor'._startMeasureTime = now'
        /\ sensor'._currentDuration = 0
        /\ sensor'._currentState =
             IF op'.reads[2] = sensor._echoActiveState
             THEN Measuring ELSE WaitingForPulse
        /\ sensor'._currentState # FinishedMeasure
    ]_vars

\* C21 witness: startMeasure() from FinishedMeasure returned in Measuring,
\* its own poll having read the ECHO line active.
C21_Witness ==
  /\ op.name = "startMeasure"
  /\ op.pre = FinishedMeasure
  /\ sensor._isAttached
  /\ op.polls = 1
  /\ op.reads = <<getOppositeStateFor(sensor._echoActiveState),
                  sensor._echoActiveState>>
  /\ sensor._currentState = Measuring
  /\ sensor._startMeasureTime = now

\* A finishedMeasure() that finds the handle detached (alone or as a turn
\* of measureDistance()'s loop).
DetachedCheckStep ==
  ~sensor._isAttached /\ (FinishedMeasureCall \/ MeasureDistanceLoop)

C23_LatchedPulseWidth ==
  [][ sensor._currentState = Measuring
        /\ sensor'._currentState = FinishedMeasure =>
        sensor'._currentDuration =
          (now' - scn.tM + ClockModulus) % ClockModulus
    ]_vars

\* C23 witness: the handle waited 1 for the pulse, the pulse lasted 2, and
\* the latched duration is 2.
C23_Witness ==
  /\ sensor._currentState = FinishedMeasure
  /\ op.name = "refreshState"
  /\ op.pre = Measuring
  /\ (scn.tM - scn.tW + ClockModulus) % ClockModulus = 1
  /\ (now - scn.tM + ClockModulus) % ClockModulus = 2
  /\ sensor._currentDuration = 2

\* The states the handle goes through in a step: startMeasure() that issues
\* a pulse assigns WaitingForPulse before its own poll can assign another
\* state; every other call assigns at most once.  (A startMeasure() that
\* issues a pulse begins outside WaitingForPulse and Measuring and ends in
\* one of the two, so it never leaves the state as it found it.)
StatePath ==
  IF op'.polls = 1 /\ sensor'._currentState # sensor._currentState /\ StartStep
  THEN <<sensor._currentState, WaitingForPulse, sensor'._currentState>>
  ELSE <<sensor._currentState, sensor'._currentState>>

CycleChange(a, b) ==
  <<a, b>> \in {<<Idle, WaitingForPulse>>, <<WaitingForPulse, Measuring>>,
                <<Measuring, FinishedMeasure>>, <<FinishedMeasure, Idle>>}

TrigPulse(s) ==
  <<s._trigActiveState, getOppositeStateFor(s._trigActiveState)>>

\* C25: every fault ends in Idle: a startMeasure() that fails (handle not
\* attached, or ECHO line active at the check), a poll that leaves
\* WaitingForPulse otherwise than to Measuring (timeout) or Measuring
\* otherwise than to FinishedMeasure (overlong pulse), interruptMeasure().
\* Idle is left by startMeasure() only, attach() keeps it, and
\* startMeasure() on an attached Idle handle with the ECHO line inactive
\* sends the trigger pulse and enters WaitingForPulse (Measuring if its own
\* poll finds the pulse).  No state of an attached handle is a trap: after
\* interruptMeasure() such a startMeasure() would send the pulse.
C25_FaultsRecovered ==
  [][ /\ sensor'._currentState # Idle => ~InterruptMeasure
      /\ ~isMeasuring(sensor) /\ (~sensor._isAttached \/ EchoActive)
           /\ StartStep =>
           sensor'._currentState = Idle /\ op'.trig = <<>>
      /\ sensor._currentState = WaitingForPulse
           /\ sensor'._currentState \notin {WaitingForPulse, Measuring}
           /\ PollStep =>
           sensor'._currentState = Idle
      /\ sensor._currentState = Measuring
           /\ sensor'._currentState \notin {Measuring, FinishedMeasure}
           /\ PollStep =>
           sensor'._currentState = Idle
      /\ sensor._currentState = Idle /\ sensor'._currentState # Idle =>
           StartStep
      /\ sensor._currentState = Idle /\ sensor._isAttached /\ ~EchoActive
           /\ StartStep =>
           /\ op'.trig = TrigPulse(sensor)
           /\ sensor'._currentState \in {WaitingForPulse, Measuring}
      /\ sensor._isAttached =>
           LET e == getOppositeStateFor(sensor._echoActiveState)
               r == startMeasure(interruptMeasure(sensor), now, e, e)
           IN r.trig = TrigPulse(sensor)
                /\ r.s._currentState = WaitingForPulse
    ]_vars

\* C25 witness: a wait has just timed out into Idle on an attached handle,
\* the ECHO line is inactive, and startMeasure() would send its pulse and
\* wait again.
C25_Witness ==
  /\ op.name = "refreshState"
  /\ op.pre = WaitingForPulse
  /\ sensor._currentState = Idle
  /\ sensor._isAttached
  /\ ~EchoActive
  /\ LET r == startMeasure(sensor, now, echoLine, echoLine) IN
       r.trig = TrigPulse(sensor) /\ r.s._currentState = WaitingForPulse

\* C26: in the sketch's loop every startMeasure() that was not ignored gets
\* its result printed exactly once: at most one is unprinted at any time
\* and none is printed that was not started (pending is 0 or 1), at the top
\* of loop() an unprinted one is still running (it was printed in the very
\* handleMeasurementResults() whose finishedMeasure() ended it), a result
\* is printed only when finishedMeasure() returned true, the state then
\* being neither WaitingForPulse nor Measuring, and before the first
\* startMeasure() nothing is printed.
C26_ReportedOnce ==
  /\ scn.pending \in {0, 1}
  /\ pc = "loop" /\ scn.pending = 1 => isMeasuring(sensor)
  /\ pc = "loop" /\ scn.pending = 0 => ~scn.receivedDistanceIsActual
  /\ scn.reported =>
       /\ op.name = "finishedMeasure"
       /\ op.ret
       /\ ~isMeasuring(sensor)
       /\ scn.pending = 0
       /\ distance \in getMeasuredDistance(sensor)
  /\ op = NoCall => ~scn.reported /\ scn.pending = 0

\* C26 witness: a measurement that took two iterations or more was printed
\* as the distance 1.
C26_Witness ==
  /\ scn.reported
  /\ op.pre = Measuring
  /\ sensor._currentState = FinishedMeasure
  /\ sensor._currentDuration = 2
  /\ distance = 1
  /\ pc = "loop"

\* C27: one poll makes at most one transition: from WaitingForPulse it
\* stays or goes to Measuring or Idle, from Measuring it stays or goes to
\* FinishedMeasure or Idle, and in any other state it changes nothing.
\* FinishedMeasure is entered from Measuring only, by a poll that read the
\* ECHO line inactive, and Measuring from WaitingForPulse only, by a poll
\* (that of startMeasure() included) that read it active.
C27_OneTransitionPerPoll ==
  [][ /\ PollStep =>
           /\ sensor._currentState = WaitingForPulse =>
                sensor'._currentState \in {WaitingForPulse, Measuring, Idle}
           /\ sensor._currentState = Measuring =>
                sensor'._currentState \in {Measuring, FinishedMeasure, Idle}
           /\ ~isMeasuring(sensor) =>
                sensor'._currentState = sensor._currentState
      /\ sensor._currentState # FinishedMeasure
           /\ sensor'._currentState = FinishedMeasure =>
           /\ sensor._currentState = Measuring
           /\ PollStep
           /\ ~EchoActive
      /\ sensor._currentState # Measuring
           /\ sensor'._currentState = Measuring =>
           IF sensor._currentState = WaitingForPulse
           THEN PollStep /\ EchoActive
           ELSE StartStep /\ op'.polls = 1
                  /\ Last(op'.reads) = sensor._echoActiveState
    ]_vars

\* C27 witness: a poll read the ECHO line inactive in Measuring and the
\* measurement is finished.
C27_Witness ==
  /\ op.name = "finishedMeasure"
  /\ op.pre = Measuring
  /\ op.reads = <<getOppositeStateFor(sensor._echoActiveState)>>
  /\ op.ret
  /\ sensor._isAttached
  /\ sensor._currentState = FinishedMeasure

\* C28: when startMeasure() returns the state is Idle, WaitingForPulse or
\* Measuring, never FinishedMeasure, and getMeasuredDistance() gives
\* URM_INVALID_VALUE: a result held before the call is gone, also when the
\* call failed on the ECHO check or on a detached handle.
C28_StartDropsResult ==
  [][ StartStep =>
        /\ sensor'._currentState \in {Idle, WaitingForPulse, Measuring}
        /\ getMeasuredDistance(sensor') = Sentinel
    ]_vars

\* C28 witness: startMeasure() on a detached handle that held a finished
\* measurement left Idle.
C28_Witness ==
  /\ op.name = "startMeasure"
  /\ op.pre = FinishedMeasure
  /\ Detached
  /\ sensor._currentDuration > 0
  /\ sensor._currentState = Idle
  /\ getMeasuredDistance(sensor) = Sentinel

\* C29: the TRIG pin is written only by a startMeasure() that enters
\* WaitingForPulse: it writes _trigActiveState and then the opposite level,
\* once each and in that order, and takes the timestamp after the pulse;
\* a startMeasure() that is ignored or fails writes nothing.  No other step
\* (refreshState, finishedMeasure, interruptMeasure, getMeasuredDistance,
\* attach, detach, the loop of measureDistance) changes the TRIG line, which
\* therefore stays at the inactive level the pulse left it at.
C29_TrigWrites ==
  [][ /\ trigLine' # trigLine => StartStep
      /\ StartStep =>
           IF sensor._isAttached /\ ~isMeasuring(sensor) /\ ~EchoActive
           THEN /\ op'.trig = <<sensor._trigActiveState,
                               getOppositeStateFor(sensor._trigActiveState)>>
                /\ trigLine' = getOppositeStateFor(sensor._trigActiveState)
                /\ sensor'._currentState \in {WaitingForPulse, Measuring}
                /\ now' = (now + sensor._trigPulseWidth) % ClockModulus
                /\ sensor'._startMeasureTime = now'
           ELSE /\ op'.trig = <<>>
                /\ trigLine' = trigLine
    ]_vars

\* C29 witness: after a pulse on an active-LOW TRIG pin the measurement
\* ran to its end under polls, and the TRIG line is still HIGH.
C29_Witness ==
  /\ op.name = "finishedMeasure"
  /\ op.pre = Measuring
  /\ sensor._isAttached
  /\ sensor._trigActiveState = LOW
  /\ sensor._currentState = FinishedMeasure
  /\ sensor._currentDuration = 2
  /\ trigLine = HIGH

\* C30: a refreshState() in an interrupt handler that comes between two
\* statements of startMeasure() and finds the handle in WaitingForPulse
\* ends the wait as timed out (state Idle) only by comparing with the
\* timestamp that this startMeasure() call wrote, never with the one an
\* earlier cycle left in _startMeasureTime.
C30_NoStaleTimeout ==
  [][ sensor._currentState = WaitingForPulse /\ sensor'._currentState = Idle
      /\ IsrRefreshState
        => scn.fresh ]_vars

\* C31: when a refreshState() in an interrupt handler completes the
\* measurement (Measuring to FinishedMeasure, _currentDuration latched)
\* while a finishedMeasure() of the main loop is between two of its
\* statements, the main loop's call, once resumed, leaves the state
\* FinishedMeasure and the latched _currentDuration as the handler left
\* them.
C31_HandlerResultKept ==
  scn.done /\ pc # "ready" =>
    /\ sensor._currentState = FinishedMeasure
    /\ sensor._currentDuration = scn.latched

====
